---------------------------- MODULE Spec2Model ----------------------------
(***************************************************************************)
(* A model of lib/models/package-info-cache/package-info.js (PackageInfo). *)
(*                                                                         *)
(* A package node is identified by an index into PkgTable, the packages    *)
(* the cache has read from disk.  File-system paths are sequences of path  *)
(* segments (<<"p", "node_modules", "a">> is /p/node_modules/a).           *)
(* JavaScript values are tagged records:                                   *)
(*    [tag |-> "undefined"], [tag |-> "null"],                             *)
(*    [tag |-> "array",  items   |-> <<v1, ..., vn>>],                     *)
(*    [tag |-> "object", entries |-> << <<k1, v1>>, ..., <<kn, vn>> >>]    *)
(* where the entries of an object are kept in own-key order.  No key used  *)
(* here is a canonical array index, so own-key order is insertion order.   *)
(***************************************************************************)
EXTENDS Naturals, Sequences, FiniteSets

(***************************************************************************)
(* Bounds of the model.                                                    *)
(***************************************************************************)
\* longest dependency spec handed to addDependencies directly
MaxDeps == 2
\* longest inRepoAddons / internalAddons list
MaxList == 1
\* longest candidate list handed to generateAddonPackages / dumpInvalidAddonPackages
MaxCands == 2
\* most errors direct calls of addDependencies leave in one node's ErrorList
MaxErrors == 1
\* most failed loads of one addon's main module
MaxLoads == 2
\* most operations in one run of the whole-class specification Spec
MaxCalls == 4

VARIABLES
    pkg,                    \* this.pkg, per node (the manifest)
    valid,                  \* this.valid, per node
    errors,                 \* this.errors (ErrorList), per node
    inRepoAddons,           \* this.inRepoAddons, per node
    internalAddons,         \* this.internalAddons, per node
    cliInfo,                \* this.cliInfo, per node
    dependencyPackages,     \* this.dependencyPackages, per node
    devDependencyPackages,  \* this.devDependencyPackages, per node
    hasDumpedInvalidAddonPackages, \* this._hasDumpedInvalidAddonPackages, per node
    ui,                     \* this.cache.ui
    addonConstructor,       \* this.addonConstructor, per node
    requireLog,             \* outcomes of require(this.addonMainPath), per node
    assignCount,            \* number of assignments to this.addonConstructor, per node
    op,                     \* the last call: method, receiver, arguments, result
    calls                   \* operations left in a bounded run ("unbounded": no limit)

vars == <<pkg, valid, errors, inRepoAddons, internalAddons, cliInfo,
          dependencyPackages, devDependencyPackages,
          hasDumpedInvalidAddonPackages, ui, addonConstructor, requireLog,
          assignCount, op, calls>>

(***************************************************************************)
(* JavaScript values.                                                      *)
(***************************************************************************)
Undefined == [tag |-> "undefined"]

Null == [tag |-> "null"]

Array(items) == [tag |-> "array", items |-> items]

Object(entries) == [tag |-> "object", entries |-> entries]

\* a value used as a condition: undefined and null are falsy, arrays and objects truthy
Truthy(v) == v.tag \notin {"undefined", "null"}

\* the null a lookup returns when it finds no package
NoPkg == 0

\* Object.keys(o)
ObjectKeys(o) == [i \in 1..Len(o.entries) |-> o.entries[i][1]]

HasKey(o, k) == \E i \in 1..Len(o.entries) : o.entries[i][1] = k

\* o[k], for a key o has
ObjGet(o, k) == o.entries[CHOOSE i \in 1..Len(o.entries) : o.entries[i][1] = k][2]

\* o[k] = v: an existing key keeps its place, a new key goes last
ObjSet(o, k, v) ==
    IF HasKey(o, k)
    THEN Object([i \in 1..Len(o.entries) |->
                    IF o.entries[i][1] = k THEN <<k, v>> ELSE o.entries[i]])
    ELSE Object(Append(o.entries, <<k, v>>))

\* Object.create(null)
EmptyObject == Object(<<>>)

(***************************************************************************)
(* The packages on disk.  Each row is what the cache read for one          *)
(* package: its directory, its package.json, whether it is the project,    *)
(* and whether it was found well-formed.                                   *)
(***************************************************************************)
PkgTable == <<
    \* 1: the project
    [realPath |-> <<"p">>, name |-> "app", project |-> TRUE, valid |-> TRUE,
     keywords |-> Undefined,
     dependencies |-> Object(<< <<"a", "*">>, <<"c", "*">>, <<"ember-cli", "*">>, <<"zz", "*">> >>),
     devDependencies |-> Object(<< <<"b", "*">>, <<"e", "*">>, <<"yy", "*">>, <<"xx", "*">> >>)],
    \* 2: an addon with a node_modules directory of its own
    [realPath |-> <<"p", "node_modules", "a">>, name |-> "a", project |-> FALSE, valid |-> TRUE,
     keywords |-> Array(<<"ember-addon">>),
     dependencies |-> Object(<< <<"d", "*">>, <<"b", "*">>, <<"ember-cli", "*">>, <<"c", "*">> >>),
     devDependencies |-> Object(<< <<"e", "*">> >>)],
    \* 3: nested under 2, malformed
    [realPath |-> <<"p", "node_modules", "a", "node_modules", "b">>, name |-> "b",
     project |-> FALSE, valid |-> FALSE, keywords |-> Array(<<"ember-addon">>),
     dependencies |-> Undefined, devDependencies |-> Undefined],
    \* 4: the top-level package of the same name
    [realPath |-> <<"p", "node_modules", "b">>, name |-> "b", project |-> FALSE, valid |-> TRUE,
     keywords |-> Array(<<"x", "ember-addon">>),
     dependencies |-> Undefined, devDependencies |-> Object(<<>>)],
    \* 5: the host build tool
    [realPath |-> <<"p", "node_modules", "ember-cli">>, name |-> "ember-cli",
     project |-> FALSE, valid |-> TRUE, keywords |-> Array(<<"ember-addon">>),
     dependencies |-> Undefined, devDependencies |-> Undefined],
    \* 6: not an addon; its directory name differs from its package name
    [realPath |-> <<"p", "node_modules", "c">>, name |-> "c-lib", project |-> FALSE, valid |-> TRUE,
     keywords |-> Undefined,
     dependencies |-> Undefined, devDependencies |-> Undefined],
    \* 7: an in-repo package, named like the host build tool, no addon keyword
    [realPath |-> <<"p", "lib", "r">>, name |-> "ember-cli", project |-> FALSE, valid |-> TRUE,
     keywords |-> Array(<<"tool">>),
     dependencies |-> Undefined, devDependencies |-> Undefined],
    \* 8, 9: two more addons
    [realPath |-> <<"p", "node_modules", "d">>, name |-> "d", project |-> FALSE, valid |-> TRUE,
     keywords |-> Array(<<"ember-addon">>),
     dependencies |-> Undefined, devDependencies |-> Undefined],
    [realPath |-> <<"p", "node_modules", "e">>, name |-> "e", project |-> FALSE, valid |-> TRUE,
     keywords |-> Array(<<"ember-addon">>),
     dependencies |-> Undefined, devDependencies |-> Undefined]
>>

Nodes == 1..Len(PkgTable)

\* this.realPath
realPath(n) == PkgTable[n].realPath

\* this.project: set by the cache on the project's node only
project(n) == IF PkgTable[n].project THEN n ELSE NoPkg

\* get name()
name(n) == pkg[n].name

(***************************************************************************)
(* path                                                                    *)
(***************************************************************************)
\* path.dirname(p); the root is its own parent
Dirname(p) == IF p = <<>> THEN <<>> ELSE SubSeq(p, 1, Len(p) - 1)

\* the length of the longest common prefix of two paths
CommonLen(a, b) ==
    LET Agree(k) == \A i \in 1..k : a[i] = b[i]
        Short == IF Len(a) < Len(b) THEN Len(a) ELSE Len(b)
    IN  CHOOSE k \in 0..Short : Agree(k) /\ \A j \in (k + 1)..Short : ~Agree(j)

\* path.relative(from, to): one ".." per segment of from below the common
\* directory, then the segments of to below it
Relative(from, to) ==
    LET c == CommonLen(from, to)
    IN  [i \in 1..(Len(from) - c) |-> ".."] \o SubSeq(to, c + 1, Len(to))

(***************************************************************************)
(* The collaborators of addDependencies.                                   *)
(***************************************************************************)
\* the package whose directory is p, or null
PackageAt(p) ==
    IF \E n \in Nodes : realPath(n) = p
    THEN CHOOSE n \in Nodes : realPath(n) = p
    ELSE NoPkg

\* this.nodeModules: set only if the package holds a node_modules directory
nodeModules(n) ==
    IF \E m \in Nodes : Len(realPath(m)) = Len(realPath(n)) + 2
                        /\ SubSeq(realPath(m), 1, Len(realPath(n)) + 1)
                           = realPath(n) \o <<"node_modules">>
    THEN Object(<<>>)
    ELSE Undefined

\* this.nodeModules.findPackage(dependencyName)
NodeModulesFindPackage(n, dependencyName) ==
    PackageAt(realPath(n) \o <<"node_modules", dependencyName>>)

\* the search of this.cache._findPackage in the first k segments of dir and,
\* failing that, in every shorter prefix (the directories above)
RECURSIVE FindUpwards(_, _, _)
FindUpwards(dependencyName, dir, k) ==
    LET here == PackageAt(SubSeq(dir, 1, k) \o <<"node_modules", dependencyName>>)
    IN  IF here # NoPkg THEN here
        ELSE IF k = 0 THEN NoPkg
        ELSE FindUpwards(dependencyName, dir, k - 1)

\* this.cache._findPackage(dependencyName, dir): the node resolution
\* algorithm, from dir upwards to the root
CacheFindPackage(dependencyName, dir) == FindUpwards(dependencyName, dir, Len(dir))

(***************************************************************************)
(* ErrorList and Errors.                                                   *)
(***************************************************************************)
ERROR_DEPENDENCIES_MISSING == "dependenciesMissing"

\* ErrorList.addError(errorType, errorData), on a list of entries
ErrorListAdd(list, errorType, errorData) ==
    Append(list, [type |-> errorType, data |-> errorData])

(***************************************************************************)
(* addDependencies                                                         *)
(***************************************************************************)
\* a plausible slip: the cache is searched first, the package's own
\* node_modules only when the cache finds nothing
findDependencyCacheFirst(self, dependencyName) ==
    LET dir == Dirname(realPath(self))
        outer == CacheFindPackage(dependencyName, dir)
        outerCall == << <<"cache._findPackage", dependencyName, dir>> >>
    IN  IF outer # NoPkg \/ ~Truthy(nodeModules(self))
        THEN [package |-> outer, trace |-> outerCall]
        ELSE [package |-> NodeModulesFindPackage(self, dependencyName),
              trace |-> Append(outerCall, <<"nodeModules.findPackage", dependencyName>>)]

\* One pass of the forEach body up to the lookup's result: the package found
\* for dependencyName (or null) and the lookups made, in order.
findDependency(self, dependencyName) ==
    LET hasIndex == Truthy(nodeModules(self))
        local == IF hasIndex THEN NodeModulesFindPackage(self, dependencyName) ELSE NoPkg
        localCall == IF hasIndex
                     THEN << <<"nodeModules.findPackage", dependencyName>> >>
                     ELSE <<>>
        dir == Dirname(realPath(self))
    IN  IF local # NoPkg
        THEN [package |-> local, trace |-> localCall]
        ELSE [package |-> CacheFindPackage(dependencyName, dir),
              trace |-> Append(localCall, <<"cache._findPackage", dependencyName, dir>>)]

\* the forEach body (lines 151-174) for one name: the accumulated packages,
\* missingDependencies and lookups after it
DependencyStep(self, dependencyName, acc) ==
    LET found == findDependency(self, dependencyName)
    IN  IF found.package # NoPkg
        THEN [packages |-> ObjSet(acc.packages, dependencyName, found.package),
              missingDependencies |-> acc.missingDependencies,
              trace |-> acc.trace \o found.trace]
        ELSE [packages |-> acc.packages,
              missingDependencies |-> Append(acc.missingDependencies, dependencyName),
              trace |-> acc.trace \o found.trace]

\* dependencyNames.forEach(...), from the i-th name on
RECURSIVE ForEachDependency(_, _, _, _)
ForEachDependency(self, dependencyNames, i, acc) ==
    IF i > Len(dependencyNames) THEN acc
    ELSE CHOOSE done \in {ForEachDependency(self, dependencyNames, i + 1, next) :
                            next \in {DependencyStep(self, dependencyNames[i], acc)}} : TRUE

\* a plausible slip: one error per missing name instead of one for the list
addDependenciesErrorPerName(self, dependencies) ==
    IF ~Truthy(dependencies) \/ Len(ObjectKeys(dependencies)) = 0
    THEN [ret |-> Null, errors |-> errors[self], trace |-> <<>>]
    ELSE LET done == ForEachDependency(self, ObjectKeys(dependencies), 1,
                        [packages |-> EmptyObject, missingDependencies |-> <<>>,
                         trace |-> <<>>])
         IN  [ret |-> done.packages,
              errors |-> errors[self] \o
                         [i \in 1..Len(done.missingDependencies) |->
                             [type |-> ERROR_DEPENDENCIES_MISSING,
                              data |-> <<done.missingDependencies[i]>>]],
              trace |-> done.trace]

\* addDependencies(dependencies) on node self: what it returns, the
\* receiver's error list after the call, and the lookups it made
addDependencies(self, dependencies) ==
    IF ~Truthy(dependencies) \/ Len(ObjectKeys(dependencies)) = 0
    THEN [ret |-> Null, errors |-> errors[self], trace |-> <<>>]
    ELSE LET done == ForEachDependency(self, ObjectKeys(dependencies), 1,
                        [packages |-> EmptyObject, missingDependencies |-> <<>>,
                         trace |-> <<>>])
         IN  [ret |-> done.packages,
              errors |-> IF Len(done.missingDependencies) > 0
                         THEN ErrorListAdd(errors[self], ERROR_DEPENDENCIES_MISSING,
                                           done.missingDependencies)
                         ELSE errors[self],
              trace |-> done.trace]


(***************************************************************************)
(* isAddon, addPackages and the two discovery methods                      *)
(***************************************************************************)
Contains(seq, x) == \E i \in 1..Len(seq) : seq[i] = x

\* Array.isArray(keywords) && keywords.indexOf('ember-addon') >= 0
HasAddonKeyword(manifest) ==
    manifest.keywords.tag = "array" /\ Contains(manifest.keywords.items, "ember-addon")

isAddon(self) == HasAddonKeyword(pkg[self])

\* project.isEmberCLIAddon(), of the Project model
isEmberCLIAddon(projectNode) ==
    Truthy(pkg[projectNode].keywords) /\ Contains(pkg[projectNode].keywords.items, "ember-addon")

\* the exclusion functions the discovery methods pass to addPackages
ExcludeFns == {"none", "notAddon", "notAddonOrEmberCli"}

ExcludeFnApply(excludeFn, pkgInfo) ==
    CASE excludeFn = "notAddon" -> ~isAddon(pkgInfo)
      [] excludeFn = "notAddonOrEmberCli" -> ~isAddon(pkgInfo) \/ name(pkgInfo) = "ember-cli"
      [] OTHER -> FALSE

\* a plausible slip: the exclusion function is applied to lists and maps alike,
\* whether or not one was passed for this provenance
addPackagesAlwaysAddons(addonPackageList, packageInfoList, excludeFn) ==
    IF ~Truthy(packageInfoList) THEN addonPackageList
    ELSE IF packageInfoList.tag = "array"
    THEN addonPackageList \o SelectSeq(packageInfoList.items, LAMBDA pkgInfo : isAddon(pkgInfo))
    ELSE addonPackageList \o
         SelectSeq([i \in 1..Len(packageInfoList.entries) |-> packageInfoList.entries[i][2]],
                   LAMBDA pkgInfo : isAddon(pkgInfo))

\* addPackages(addonPackageList, packageInfoList, excludeFn): the contents of
\* addonPackageList after the call
addPackages(addonPackageList, packageInfoList, excludeFn) ==
    IF ~Truthy(packageInfoList) THEN addonPackageList
    ELSE IF packageInfoList.tag = "array"
    THEN addonPackageList \o
         (IF excludeFn # "none"
          THEN SelectSeq(packageInfoList.items,
                         LAMBDA pkgInfo : ~ExcludeFnApply(excludeFn, pkgInfo))
          ELSE packageInfoList.items)
    ELSE addonPackageList \o
         SelectSeq([i \in 1..Len(ObjectKeys(packageInfoList)) |->
                        ObjGet(packageInfoList, ObjectKeys(packageInfoList)[i])],
                   LAMBDA pkgInfo : excludeFn = "none" \/ ~ExcludeFnApply(excludeFn, pkgInfo))

discoverAddonAddons(self) ==
    LET l1 == addPackages(<<>>, dependencyPackages[self], "notAddonOrEmberCli")
        l2 == addPackages(l1, inRepoAddons[self], "none")
    IN  l2

\* a plausible slip: the project itself is added last instead of first
discoverProjectAddonsSelfLast(self) ==
    IF project(self) = NoPkg THEN [threw |-> TRUE, ret |-> <<>>]
    ELSE
    LET l2 == addPackages(<<>>, IF Truthy(cliInfo[self])
                                THEN inRepoAddons[cliInfo[self].node] ELSE Null, "none")
        l3 == addPackages(l2, internalAddons[self], "none")
        l4 == addPackages(l3, dependencyPackages[self], "notAddon")
        l5 == addPackages(l4, devDependencyPackages[self], "notAddon")
        l6 == addPackages(l5, inRepoAddons[self], "none")
    IN  [threw |-> FALSE,
         ret |-> addPackages(l6, IF isEmberCLIAddon(project(self))
                                 THEN Array(<<self>>) ELSE Null, "none")]

\* discoverProjectAddons(); this.project is undefined on a node that is not
\* the project's, and project.isEmberCLIAddon() then throws a TypeError
discoverProjectAddons(self) ==
    IF project(self) = NoPkg THEN [threw |-> TRUE, ret |-> <<>>]
    ELSE
    LET l1 == addPackages(<<>>, IF isEmberCLIAddon(project(self))
                                THEN Array(<<self>>) ELSE Null, "none")
        l2 == addPackages(l1, IF Truthy(cliInfo[self])
                              THEN inRepoAddons[cliInfo[self].node] ELSE Null, "none")
        l3 == addPackages(l2, internalAddons[self], "none")
        l4 == addPackages(l3, dependencyPackages[self], "notAddon")
        l5 == addPackages(l4, devDependencyPackages[self], "notAddon")
        l6 == addPackages(l5, inRepoAddons[self], "none")
    IN  [threw |-> FALSE, ret |-> l6]

(***************************************************************************)
(* generateAddonPackages and dumpInvalidAddonPackages                      *)
(***************************************************************************)
\* new AddonInfo(name, path, pkg)
AddonInfo(addonName, addonPath, addonPkg) ==
    [class |-> "AddonInfo", name |-> addonName, path |-> addonPath, pkg |-> addonPkg]

\* the exclusion functions a caller passes to generateAddonPackages: none,
\* one that looks at the record's path, one that looks at its name
AddonExcludeFns == {"none", "inRepo", "namedB"}

AddonExcludeFnApply(excludeFn, addonInfo) ==
    CASE excludeFn = "inRepo" -> Len(addonInfo.path) >= 2 /\ addonInfo.path[2] = "lib"
      [] excludeFn = "namedB" -> addonInfo.name = "b"
      [] OTHER -> FALSE

\* a plausible slip: the list is not filtered by the valid flag
getValidPackagesAll(self, addonPackageList) == addonPackageList

getValidPackages(self, addonPackageList) ==
    SelectSeq(addonPackageList, LAMBDA pkgInfo : valid[pkgInfo])

getInvalidPackages(self, addonPackageList) ==
    SelectSeq(addonPackageList, LAMBDA pkgInfo : ~valid[pkgInfo])

\* the forEach body (lines 277-282) for one valid package
ValidPackageStep(pkgInfo, excludeFn, acc) ==
    LET addonInfo == AddonInfo(name(pkgInfo), realPath(pkgInfo), pkg[pkgInfo])
    IN  [packageMap |-> IF excludeFn # "none" /\ AddonExcludeFnApply(excludeFn, addonInfo)
                        THEN acc.packageMap
                        ELSE ObjSet(acc.packageMap, name(pkgInfo), addonInfo),
         excludeCalls |-> IF excludeFn # "none" THEN Append(acc.excludeCalls, addonInfo)
                          ELSE acc.excludeCalls]

\* validPackages.forEach(...), from the i-th package on
RECURSIVE ForEachValidPackage(_, _, _, _)
ForEachValidPackage(validPackages, excludeFn, i, acc) ==
    IF i > Len(validPackages) THEN acc
    ELSE CHOOSE done \in {ForEachValidPackage(validPackages, excludeFn, i + 1, next) :
                            next \in {ValidPackageStep(validPackages[i], excludeFn, acc)}} : TRUE

\* a plausible slip: the first package of a name is kept, later ones ignored
ValidPackageStepFirstWins(pkgInfo, excludeFn, acc) ==
    LET addonInfo == AddonInfo(name(pkgInfo), realPath(pkgInfo), pkg[pkgInfo])
    IN  [packageMap |-> IF \/ excludeFn # "none" /\ AddonExcludeFnApply(excludeFn, addonInfo)
                           \/ HasKey(acc.packageMap, name(pkgInfo))
                        THEN acc.packageMap
                        ELSE ObjSet(acc.packageMap, name(pkgInfo), addonInfo),
         excludeCalls |-> IF excludeFn # "none" THEN Append(acc.excludeCalls, addonInfo)
                          ELSE acc.excludeCalls]

RECURSIVE ForEachValidPackageFirstWins(_, _, _, _)
ForEachValidPackageFirstWins(validPackages, excludeFn, i, acc) ==
    IF i > Len(validPackages) THEN acc
    ELSE CHOOSE done \in {ForEachValidPackageFirstWins(validPackages, excludeFn, i + 1, next) :
                            next \in {ValidPackageStepFirstWins(validPackages[i], excludeFn, acc)}} : TRUE

generateAddonPackagesFirstWins(self, addonPackageList, excludeFn) ==
    ForEachValidPackageFirstWins(getValidPackages(self, addonPackageList), excludeFn, 1,
                        [packageMap |-> EmptyObject, excludeCalls |-> <<>>])

\* generateAddonPackages(addonPackageList, excludeFn): the map it returns and
\* the arguments excludeFn was called with
generateAddonPackages(self, addonPackageList, excludeFn) ==
    ForEachValidPackage(getValidPackages(self, addonPackageList), excludeFn, 1,
                        [packageMap |-> EmptyObject, excludeCalls |-> <<>>])

\* the values of this.cache.ui: none, one without writeWarnLine, one with it
UiChoices == {Undefined,
              [tag |-> "object", writeWarnLine |-> FALSE],
              [tag |-> "object", writeWarnLine |-> TRUE]}

\* a plausible slip: the flag is set but never looked at
dumpInvalidAddonPackagesEveryTime(self, addonPackageList) ==
    LET invalidPackages == getInvalidPackages(self, addonPackageList)
    IN  IF Len(invalidPackages) > 0 /\ Truthy(ui) /\ ui.writeWarnLine
        THEN [hasDumped |-> TRUE,
              written |-> << <<"For ", IF project(self) # NoPkg THEN "project" ELSE "addon",
                               " at path ", realPath(self), ":">> >>
                   \o [i \in 1..Len(invalidPackages) |->
                          <<"   Excluding invalid/malformed/missing addon at relative path '",
                            Relative(realPath(self), realPath(invalidPackages[i])), "'">>]]
        ELSE [hasDumped |-> TRUE, written |-> <<>>]

\* a plausible slip: the flag is set only when something was written
dumpInvalidAddonPackagesFlagOnWrite(self, addonPackageList) ==
    IF hasDumpedInvalidAddonPackages[self]
    THEN [hasDumped |-> TRUE, written |-> <<>>]
    ELSE LET invalidPackages == getInvalidPackages(self, addonPackageList)
         IN  IF Len(invalidPackages) > 0 /\ Truthy(ui) /\ ui.writeWarnLine
             THEN [hasDumped |-> TRUE,
                   written |-> << <<"For ", IF project(self) # NoPkg THEN "project" ELSE "addon",
                                    " at path ", realPath(self), ":">> >>
                        \o [i \in 1..Len(invalidPackages) |->
                               <<"   Excluding invalid/malformed/missing addon at relative path '",
                                 Relative(realPath(self), realPath(invalidPackages[i])), "'">>]]
             ELSE [hasDumped |-> FALSE, written |-> <<>>]

\* dumpInvalidAddonPackages(addonPackageList): the receiver's flag after the
\* call and the lines handed to ui.writeWarnLine, in order
dumpInvalidAddonPackages(self, addonPackageList) ==
    IF hasDumpedInvalidAddonPackages[self]
    THEN [hasDumped |-> TRUE, written |-> <<>>]
    ELSE LET invalidPackages == getInvalidPackages(self, addonPackageList)
         IN  IF Len(invalidPackages) > 0 /\ Truthy(ui) /\ ui.writeWarnLine
             THEN [hasDumped |-> TRUE,
                   written |-> << <<"For ", IF project(self) # NoPkg THEN "project" ELSE "addon",
                                    " at path ", realPath(self), ":">> >>
                        \o [i \in 1..Len(invalidPackages) |->
                               <<"   Excluding invalid/malformed/missing addon at relative path '",
                                 Relative(realPath(self), realPath(invalidPackages[i])), "'">>]]
             ELSE [hasDumped |-> TRUE, written |-> <<>>]


(***************************************************************************)
(* getAddonConstructor                                                     *)
(***************************************************************************)
Str(v) == [tag |-> "string", value |-> v]

\* this.addonMainPath: set by the cache, for addons only
addonMainPath(self) ==
    IF isAddon(self) THEN Str(realPath(self) \o <<"index.js">>) ELSE Undefined

\* what require(this.addonMainPath) may do: throw, or return a module that is
\* a function (whose prototype may already have a root and a pkg) or a plain
\* object of options (which may hold a root of its own)
LoadOutcomes ==
    {[threw |-> TRUE],
     [threw |-> FALSE, form |-> "function", root |-> Undefined, pkg |-> Undefined],
     [threw |-> FALSE, form |-> "function", root |-> Str(<<"elsewhere">>),
      pkg |-> Str(<<"own-pkg">>)],
     [threw |-> FALSE, form |-> "object", root |-> Undefined, pkg |-> Undefined],
     [threw |-> FALSE, form |-> "object", root |-> Str(<<"elsewhere">>), pkg |-> Undefined]}

\* a || b
OrElse(a, b) == IF Truthy(a) THEN a ELSE b

\* the constructor built from a loaded module (lines 331-354)
BuildConstructor(self, module) ==
    LET mainDir == Str(Dirname(addonMainPath(self).value))
        meta == [modulePath |-> addonMainPath(self), lookupDuration |-> 0, initializeIn |-> 0]
    IN  IF module.form = "function"
        THEN [tag |-> "function", from |-> "module",
              root |-> OrElse(module.root, mainDir),
              pkg |-> OrElse(module.pkg, pkg[self]),
              meta |-> meta]
        \* Addon.extend(Object.assign({ root: mainDir, pkg: this.pkg }, module))
        ELSE [tag |-> "function", from |-> "Addon.extend",
              root |-> IF module.root.tag # "undefined" THEN module.root ELSE mainDir,
              pkg |-> IF module.pkg.tag # "undefined" THEN module.pkg
                      ELSE pkg[self],
              meta |-> meta]

\* a plausible slip: the constructor is built and returned but not stored
getAddonConstructorNoMemo(self, loaded) ==
    IF Truthy(addonConstructor[self])
    THEN [threw |-> FALSE, ret |-> addonConstructor[self], required |-> <<>>,
          ctor |-> addonConstructor[self], assigned |-> 0]
    ELSE IF loaded.threw
    THEN [threw |-> TRUE, ret |-> Undefined, required |-> <<"threw">>,
          ctor |-> addonConstructor[self], assigned |-> 0]
    ELSE [threw |-> FALSE, ret |-> BuildConstructor(self, loaded), required |-> <<"loaded">>,
          ctor |-> addonConstructor[self], assigned |-> 0]

\* getAddonConstructor(), when require(this.addonMainPath) would do what
\* `loaded` says: whether the call throws, what it returns, the outcomes of
\* the requires of the main module it made, this.addonConstructor after the
\* call and the number of assignments to it
getAddonConstructor(self, loaded) ==
    IF Truthy(addonConstructor[self])
    THEN [threw |-> FALSE, ret |-> addonConstructor[self], required |-> <<>>,
          ctor |-> addonConstructor[self], assigned |-> 0]
    ELSE IF loaded.threw
    THEN [threw |-> TRUE, ret |-> Undefined, required |-> <<"threw">>,
          ctor |-> addonConstructor[self], assigned |-> 0]
    ELSE [threw |-> FALSE, ret |-> BuildConstructor(self, loaded), required |-> <<"loaded">>,
          ctor |-> BuildConstructor(self, loaded), assigned |-> 1]

(***************************************************************************)
(* The initial state: every package of PkgTable has been constructed and   *)
(* read by the cache (pkg, realPath, project, valid, addonMainPath and     *)
(* nodeModules are set); the fields the methods below fill are as the      *)
(* constructor left them.                                                  *)
(***************************************************************************)
Manifest(n, projectKeywords) ==
    [name |-> PkgTable[n].name,
     keywords |-> IF PkgTable[n].project THEN projectKeywords ELSE PkgTable[n].keywords,
     dependencies |-> PkgTable[n].dependencies,
     devDependencies |-> PkgTable[n].devDependencies,
     emberAddon |-> EmptyObject]

InitWith(projectKeywordChoices, uiChoices, invalidChoices, limited) ==
    /\ \E k \in projectKeywordChoices : pkg = [n \in Nodes |-> Manifest(n, k)]
    /\ \E S \in invalidChoices : valid = [n \in Nodes |-> PkgTable[n].valid /\ n \notin S]
    /\ ui \in uiChoices
    /\ errors = [n \in Nodes |-> <<>>]
    /\ inRepoAddons = [n \in Nodes |-> Undefined]
    /\ internalAddons = [n \in Nodes |-> Undefined]
    /\ cliInfo = [n \in Nodes |-> Undefined]
    /\ dependencyPackages = [n \in Nodes |-> Undefined]
    /\ devDependencyPackages = [n \in Nodes |-> Undefined]
    /\ hasDumpedInvalidAddonPackages = [n \in Nodes |-> FALSE]
    /\ addonConstructor = [n \in Nodes |-> Undefined]
    /\ requireLog = [n \in Nodes |-> <<>>]
    /\ assignCount = [n \in Nodes |-> 0]
    /\ op = [name |-> "constructor", self |-> NoPkg]
    /\ calls = [limited |-> limited, left |-> MaxCalls]

\* one more operation of a run; a bounded run stops after MaxCalls of them
Tick ==
    IF calls.limited
    THEN calls.left > 0 /\ calls' = [calls EXCEPT !.left = @ - 1]
    ELSE calls' = calls

(***************************************************************************)
(* The operations.                                                         *)
(***************************************************************************)
\* a plausible slip: a node with missing dependencies is marked invalid
AddDependenciesInvalidates(self, dependencies) ==
    \E r \in {addDependencies(self, dependencies)} :
        /\ Len(r.errors) > Len(errors[self]) => Len(errors[self]) < MaxErrors
        /\ errors' = [errors EXCEPT ![self] = r.errors]
        /\ valid' = [valid EXCEPT ![self] = @ /\ Len(r.errors) = Len(errors[self])]
        /\ op' = [name |-> "addDependencies", self |-> self, dependencies |-> dependencies,
                  ret |-> r.ret, trace |-> r.trace, errorsBefore |-> errors[self]]
        /\ Tick
        /\ UNCHANGED <<pkg, inRepoAddons, internalAddons, cliInfo,
                       dependencyPackages, devDependencyPackages,
                       hasDumpedInvalidAddonPackages, ui, addonConstructor,
                       requireLog, assignCount>>

\* a direct call of addDependencies(dependencies); the result is not stored
AddDependencies(self, dependencies) ==
    \E r \in {addDependencies(self, dependencies)} :
        /\ Len(r.errors) > Len(errors[self]) => Len(errors[self]) < MaxErrors
        /\ errors' = [errors EXCEPT ![self] = r.errors]
        /\ op' = [name |-> "addDependencies", self |-> self, dependencies |-> dependencies,
                  ret |-> r.ret, trace |-> r.trace, errorsBefore |-> errors[self]]
        /\ Tick
        /\ UNCHANGED <<pkg, valid, inRepoAddons, internalAddons, cliInfo,
                       dependencyPackages, devDependencyPackages,
                       hasDumpedInvalidAddonPackages, ui, addonConstructor,
                       requireLog, assignCount>>

\* PackageInfoCache._resolveDependencies, for one node and one section of its
\* manifest: the section is resolved once and a non-null result is stored
ResolveDependencies(self, section) ==
    LET dependencies == IF section = "dependencies" THEN pkg[self].dependencies
                        ELSE pkg[self].devDependencies
    IN  \E r \in {addDependencies(self, dependencies)} :
        /\ IF section = "dependencies"
           THEN /\ ~Truthy(dependencyPackages[self])
                /\ dependencyPackages' =
                       IF Truthy(r.ret) THEN [dependencyPackages EXCEPT ![self] = r.ret]
                       ELSE dependencyPackages
                /\ UNCHANGED devDependencyPackages
           ELSE /\ ~Truthy(devDependencyPackages[self])
                /\ devDependencyPackages' =
                       IF Truthy(r.ret) THEN [devDependencyPackages EXCEPT ![self] = r.ret]
                       ELSE devDependencyPackages
                /\ UNCHANGED dependencyPackages
        /\ errors' = [errors EXCEPT ![self] = r.errors]
        /\ op' = [name |-> "addDependencies", self |-> self, dependencies |-> dependencies,
                  ret |-> r.ret, trace |-> r.trace, errorsBefore |-> errors[self]]
        /\ Tick
        /\ UNCHANGED <<pkg, valid, inRepoAddons, internalAddons, cliInfo,
                       hasDumpedInvalidAddonPackages, ui, addonConstructor,
                       requireLog, assignCount>>

AddInRepoAddon(self, inRepoAddonPkg) ==
    LET list == IF ~Truthy(inRepoAddons[self]) THEN <<>> ELSE inRepoAddons[self].items
    IN  /\ Len(list) < MaxList
        /\ inRepoAddons' = [inRepoAddons EXCEPT ![self] = Array(Append(list, inRepoAddonPkg))]
        /\ op' = [name |-> "addInRepoAddon", self |-> self, arg |-> inRepoAddonPkg]
        /\ Tick
        /\ UNCHANGED <<pkg, valid, errors, internalAddons, cliInfo,
                       dependencyPackages, devDependencyPackages,
                       hasDumpedInvalidAddonPackages, ui, addonConstructor,
                       requireLog, assignCount>>

AddInternalAddon(self, internalAddonPkg) ==
    LET list == IF ~Truthy(internalAddons[self]) THEN <<>> ELSE internalAddons[self].items
    IN  /\ Len(list) < MaxList
        /\ internalAddons' = [internalAddons EXCEPT ![self] = Array(Append(list, internalAddonPkg))]
        /\ op' = [name |-> "addInternalAddon", self |-> self, arg |-> internalAddonPkg]
        /\ Tick
        /\ UNCHANGED <<pkg, valid, errors, inRepoAddons, cliInfo,
                       dependencyPackages, devDependencyPackages,
                       hasDumpedInvalidAddonPackages, ui, addonConstructor,
                       requireLog, assignCount>>

\* the cache sets cliInfo on the project's node, once
SetCliInfo(self, cli) ==
    /\ project(self) # NoPkg
    /\ ~Truthy(cliInfo[self])
    /\ cliInfo' = [cliInfo EXCEPT ![self] = [tag |-> "packageInfo", node |-> cli]]
    /\ op' = [name |-> "setCliInfo", self |-> self, arg |-> cli]
    /\ Tick
    /\ UNCHANGED <<pkg, valid, errors, inRepoAddons, internalAddons,
                   dependencyPackages, devDependencyPackages,
                   hasDumpedInvalidAddonPackages, ui, addonConstructor,
                   requireLog, assignCount>>

DiscoverAddonAddons(self) ==
    /\ op' = [name |-> "discoverAddonAddons", self |-> self,
              ret |-> Array(discoverAddonAddons(self))]
    /\ Tick
    /\ UNCHANGED <<pkg, valid, errors, inRepoAddons, internalAddons, cliInfo,
                   dependencyPackages, devDependencyPackages,
                   hasDumpedInvalidAddonPackages, ui, addonConstructor,
                   requireLog, assignCount>>

DiscoverProjectAddons(self) ==
    /\ \E r \in {discoverProjectAddons(self)} :
          op' = [name |-> "discoverProjectAddons", self |-> self,
                 threw |-> r.threw, ret |-> Array(r.ret)]
    /\ Tick
    /\ UNCHANGED <<pkg, valid, errors, inRepoAddons, internalAddons, cliInfo,
                   dependencyPackages, devDependencyPackages,
                   hasDumpedInvalidAddonPackages, ui, addonConstructor,
                   requireLog, assignCount>>

GenerateAddonPackages(self, addonPackageList, excludeFn) ==
    \E r \in {generateAddonPackages(self, addonPackageList, excludeFn)} :
        /\ op' = [name |-> "generateAddonPackages", self |-> self,
                  addonPackageList |-> addonPackageList, excludeFn |-> excludeFn,
                  ret |-> r.packageMap, excludeCalls |-> r.excludeCalls]
        /\ Tick
        /\ UNCHANGED <<pkg, valid, errors, inRepoAddons, internalAddons, cliInfo,
                       dependencyPackages, devDependencyPackages,
                       hasDumpedInvalidAddonPackages, ui, addonConstructor,
                       requireLog, assignCount>>

DumpInvalidAddonPackages(self, addonPackageList) ==
    \E r \in {dumpInvalidAddonPackages(self, addonPackageList)} :
        /\ hasDumpedInvalidAddonPackages' =
               [hasDumpedInvalidAddonPackages EXCEPT ![self] = r.hasDumped]
        /\ op' = [name |-> "dumpInvalidAddonPackages", self |-> self,
                  addonPackageList |-> addonPackageList, written |-> r.written,
                  flagBefore |-> hasDumpedInvalidAddonPackages[self], uiBefore |-> ui]
        /\ Tick
        /\ UNCHANGED <<pkg, valid, errors, inRepoAddons, internalAddons, cliInfo,
                       dependencyPackages, devDependencyPackages, ui,
                       addonConstructor, requireLog, assignCount>>

\* what Project.discoverAddons and Addon.discoverAddons do with a candidate
\* list: generateAddonPackages, then dumpInvalidAddonPackages
BuildAddonMap(self, addonPackageList, excludeFn) ==
    \E g \in {generateAddonPackages(self, addonPackageList, excludeFn)},
       d \in {dumpInvalidAddonPackages(self, addonPackageList)} :
        /\ hasDumpedInvalidAddonPackages' =
               [hasDumpedInvalidAddonPackages EXCEPT ![self] = d.hasDumped]
        /\ op' = [name |-> "buildAddonMap", self |-> self,
                  addonPackageList |-> addonPackageList, excludeFn |-> excludeFn,
                  ret |-> g.packageMap, excludeCalls |-> g.excludeCalls,
                  written |-> d.written,
                  flagBefore |-> hasDumpedInvalidAddonPackages[self], uiBefore |-> ui]
        /\ Tick
        /\ UNCHANGED <<pkg, valid, errors, inRepoAddons, internalAddons, cliInfo,
                       dependencyPackages, devDependencyPackages, ui,
                       addonConstructor, requireLog, assignCount>>

\* the cache's ui is replaced (a ui is attached, or detached)
CacheSetUi(newUi) ==
    /\ newUi # ui
    /\ ui' = newUi
    /\ op' = [name |-> "setUi", self |-> NoPkg]
    /\ Tick
    /\ UNCHANGED <<pkg, valid, errors, inRepoAddons, internalAddons, cliInfo,
                   dependencyPackages, devDependencyPackages,
                   hasDumpedInvalidAddonPackages, addonConstructor, requireLog,
                   assignCount>>

GetAddonConstructor(self, loaded) ==
    \E r \in {getAddonConstructor(self, loaded)},
       failures \in {Len(SelectSeq(requireLog[self], LAMBDA o : o = "threw"))} :
        /\ Truthy(addonMainPath(self))
        /\ r.threw => failures < MaxLoads
        /\ addonConstructor' = [addonConstructor EXCEPT ![self] = r.ctor]
        /\ requireLog' = [requireLog EXCEPT ![self] = @ \o r.required]
        /\ assignCount' = [assignCount EXCEPT ![self] = @ + r.assigned]
        /\ op' = [name |-> "getAddonConstructor", self |-> self, threw |-> r.threw,
                  ret |-> r.ret, ctorBefore |-> addonConstructor[self],
                  required |-> r.required]
        /\ Tick
        /\ UNCHANGED <<pkg, valid, errors, inRepoAddons, internalAddons, cliInfo,
                       dependencyPackages, devDependencyPackages,
                       hasDumpedInvalidAddonPackages, ui>>


(***************************************************************************)
(* The inputs the operations are called with.                              *)
(***************************************************************************)
\* the sequences over S of length at most n
SeqsUpTo(S, n) == UNION {[1..k -> S] : k \in 0..n}

NoRepeat(q) == \A i, j \in 1..Len(q) : i # j => q[i] # q[j]

\* the names a dependency spec may declare: "b" and "c" are installed, "yy"
\* and "zz" are not
DepNames == {"b", "c", "yy", "zz"}

\* dependency specs: undefined, null, and every object of at most MaxDeps
\* declared names
DepSpecs ==
    {Undefined, Null} \cup
    {Object([i \in 1..Len(q) |-> <<q[i], "*">>]) : q \in {r \in SeqsUpTo(DepNames, MaxDeps) : NoRepeat(r)}}

\* receivers of direct addDependencies calls: 2 has a node_modules of its
\* own, 4 has none
DepReceivers == {2, 4}

\* receivers of the discovery operations: the project and an addon
Owners == {1, 2}

\* in-repo addons of the project and of the addon: one malformed, one that
\* has no addon keyword and is named like the host build tool
InRepoCands == {3, 7}

\* the in-repo addon of the host build tool
CliInRepoCands == {4}

InternalCands == {8}

\* the package of the host build tool
CliNodes == {5}

\* candidate lists: 3 and 4 share the name "b", 5 and 7 the name "ember-cli"
CandNodes == {3, 4, 5, 7}

CandLists == SeqsUpTo(CandNodes, MaxCands)

CtorNodes == {2, 4, 5}

Writer == [tag |-> "object", writeWarnLine |-> TRUE]

AddonKeywords == Array(<<"ember-addon">>)

(***************************************************************************)
(* Dependency resolution alone.                                            *)
(***************************************************************************)
InitDeps == InitWith({Undefined}, {Writer}, {{}}, FALSE)

NextDeps == \E self \in DepReceivers, dependencies \in DepSpecs : AddDependencies(self, dependencies)

SpecDeps == InitDeps /\ [][NextDeps]_vars

(***************************************************************************)
(* Population of a node's fields and the two discovery methods.            *)
(***************************************************************************)
InitDiscover == InitWith({Undefined, AddonKeywords}, {Writer}, {{}}, FALSE)

NextDiscover ==
    \/ \E self \in Owners, section \in {"dependencies", "devDependencies"} :
          ResolveDependencies(self, section)
    \/ \E self \in Owners, m \in InRepoCands : AddInRepoAddon(self, m)
    \/ \E cli \in CliNodes, m \in CliInRepoCands : AddInRepoAddon(cli, m)
    \/ \E m \in InternalCands : AddInternalAddon(1, m)
    \/ \E cli \in CliNodes : SetCliInfo(1, cli)
    \/ \E self \in Owners : DiscoverAddonAddons(self)
    \/ \E self \in Owners : DiscoverProjectAddons(self)

SpecDiscover == InitDiscover /\ [][NextDiscover]_vars

(***************************************************************************)
(* The addon map and the warning about invalid addons.                     *)
(***************************************************************************)
InitMap == InitWith({Undefined}, {Undefined, Writer}, {{}, {7}}, FALSE)

NextMap ==
    \/ \E l \in CandLists, f \in AddonExcludeFns : GenerateAddonPackages(1, l, f)
    \/ \E self \in Owners, l \in CandLists : DumpInvalidAddonPackages(self, l)
    \/ \E self \in Owners, l \in CandLists : BuildAddonMap(self, l, "none")
    \/ \E u \in UiChoices : CacheSetUi(u)

SpecMap == InitMap /\ [][NextMap]_vars

(***************************************************************************)
(* The addon constructor.                                                  *)
(***************************************************************************)
InitCtor == InitWith({Undefined}, {Writer}, {{}}, FALSE)

NextCtor == \E self \in CtorNodes, loaded \in LoadOutcomes : GetAddonConstructor(self, loaded)

SpecCtor == InitCtor /\ [][NextCtor]_vars

(***************************************************************************)
(* The whole class: every operation, in any order, in runs of at most      *)
(* MaxCalls operations.                                                    *)
(***************************************************************************)
\* the inputs of the whole-class runs
RunDepSpecs == {Object(<< <<"b", "*">>, <<"zz", "*">> >>), Object(<< <<"c", "*">> >>)}

RunLists == {<<3>>, <<4, 3>>, <<5, 7>>}

RunLoadOutcomes == {o \in LoadOutcomes : o.threw \/ ~Truthy(o.root)}

Init == InitWith({AddonKeywords}, {Writer}, {{}}, TRUE)

Next ==
    \/ \E dependencies \in RunDepSpecs : AddDependencies(2, dependencies)
    \/ \E self \in Owners, section \in {"dependencies", "devDependencies"} :
          ResolveDependencies(self, section)
    \/ \E self \in Owners : AddInRepoAddon(self, 3)
    \/ \E m \in InternalCands : AddInternalAddon(1, m)
    \/ \E cli \in CliNodes : SetCliInfo(1, cli)
    \/ \E self \in Owners : DiscoverAddonAddons(self)
    \/ DiscoverProjectAddons(1)
    \/ \E l \in RunLists : GenerateAddonPackages(1, l, "inRepo")
    \/ \E self \in Owners, l \in RunLists : DumpInvalidAddonPackages(self, l)
    \/ \E self \in Owners, l \in RunLists : BuildAddonMap(self, l, "none")
    \/ \E u \in UiChoices : CacheSetUi(u)
    \/ \E loaded \in RunLoadOutcomes : GetAddonConstructor(2, loaded)

Spec == Init /\ [][Next]_vars

(***************************************************************************)
(* Properties of addDependencies                                          *)
(***************************************************************************)
\* the last call was addDependencies with a non-empty dependency object
IsDependencyCall ==
    /\ op.name = "addDependencies"
    /\ Truthy(op.dependencies)
    /\ Len(ObjectKeys(op.dependencies)) > 0

\* the names the last call declared
Declared == {ObjectKeys(op.dependencies)[i] : i \in 1..Len(ObjectKeys(op.dependencies))}

\* what the receiver's own node_modules index gives for a name, NoPkg when
\* the receiver has no index
LocalLookup(self, k) ==
    IF Truthy(nodeModules(self)) THEN NodeModulesFindPackage(self, k) ELSE NoPkg

\* local index first, else the ancestor lookup from the parent directory
Lookup(self, k) ==
    IF LocalLookup(self, k) # NoPkg THEN LocalLookup(self, k)
    ELSE CacheFindPackage(k, Dirname(realPath(self)))

\* C1: for a non-empty dependency object D, addDependencies returns a map
\* whose keys are exactly the names of D that the lookup (local index, else
\* ancestors) resolves, each mapped to the package the lookup returned; when
\* some names resolve nowhere exactly one dependenciesMissing error listing
\* exactly those names is appended to the receiver's errors, and when none
\* fails the map has |D| entries and the errors are unchanged.
C1_AddDependenciesResult ==
    IsDependencyCall =>
        LET self == op.self
            resolved == {k \in Declared : Lookup(self, k) # NoPkg}
            failed == Declared \ resolved
            keys == ObjectKeys(op.ret)
        IN  /\ op.ret.tag = "object"
            /\ {keys[i] : i \in 1..Len(keys)} = resolved
            /\ Len(keys) = Cardinality(resolved)
            /\ \A k \in resolved : ObjGet(op.ret, k) = Lookup(self, k)
            /\ failed # {} =>
                   /\ Len(errors[self]) = Len(op.errorsBefore) + 1
                   /\ SubSeq(errors[self], 1, Len(op.errorsBefore)) = op.errorsBefore
                   /\ LET e == errors[self][Len(errors[self])]
                      IN  /\ e.type = ERROR_DEPENDENCIES_MISSING
                          /\ {e.data[i] : i \in 1..Len(e.data)} = failed
                          /\ Len(e.data) = Cardinality(failed)
            /\ failed = {} =>
                   /\ Len(keys) = Len(ObjectKeys(op.dependencies))
                   /\ errors[self] = op.errorsBefore

\* a call in which one declared name resolved and another did not
C1_Witness ==
    /\ IsDependencyCall
    /\ Len(ObjectKeys(op.dependencies)) = 2
    /\ Len(ObjectKeys(op.ret)) = 1
    /\ Len(errors[op.self]) = Len(op.errorsBefore) + 1

\* C2: a name the receiver's own node_modules index resolves is mapped to
\* that package and the ancestor lookup is not invoked for it; the ancestor
\* lookup is invoked only for names the local index does not resolve (or
\* when the receiver has no local index).
C2_LocalIndexShortCircuits ==
    IsDependencyCall =>
        \A k \in Declared :
            LET local == LocalLookup(op.self, k)
                ancestorCalls == {i \in 1..Len(op.trace) :
                                     /\ op.trace[i][1] = "cache._findPackage"
                                     /\ op.trace[i][2] = k}
            IN  /\ local # NoPkg =>
                       /\ ancestorCalls = {}
                       /\ HasKey(op.ret, k)
                       /\ ObjGet(op.ret, k) = local
                /\ local = NoPkg => Cardinality(ancestorCalls) = 1

\* a name resolved by the receiver's own index although the ancestors hold
\* a different package of that name
C2_Witness ==
    /\ IsDependencyCall
    /\ \E k \in Declared :
           /\ LocalLookup(op.self, k) # NoPkg
           /\ CacheFindPackage(k, Dirname(realPath(op.self))) # NoPkg
           /\ CacheFindPackage(k, Dirname(realPath(op.self))) # LocalLookup(op.self, k)
           /\ ObjGet(op.ret, k) = LocalLookup(op.self, k)

(***************************************************************************)
(* Properties of the discovery methods                                    *)
(***************************************************************************)
\* the items of a list field, nothing when the field is not set
ListOf(v) == IF Truthy(v) THEN v.items ELSE <<>>

\* the packages of a resolved dependency map, in key order
ValuesOf(m) == IF Truthy(m) THEN [i \in 1..Len(m.entries) |-> m.entries[i][2]] ELSE <<>>

AddonShaped(n) == HasAddonKeyword(pkg[n])

IsGenerateCall == op.name = "generateAddonPackages"

\* the addon record derived from a candidate
RecordOf(n) == AddonInfo(name(n), realPath(n), pkg[n])

\* the candidate contributes: it is valid and the predicate, if one was
\* supplied, returned false for its record
Eligible(n, excludeFn) ==
    valid[n] /\ (excludeFn = "none" \/ ~AddonExcludeFnApply(excludeFn, RecordOf(n)))

\* the positions of the last call's list that hold a candidate named nm
PositionsOf(nm) ==
    {i \in 1..Len(op.addonPackageList) : name(op.addonPackageList[i]) = nm}

\* the names that two or more positions of the last call's list share
DuplicatedNames ==
    {nm \in {name(op.addonPackageList[i]) : i \in 1..Len(op.addonPackageList)} :
        Cardinality(PositionsOf(nm)) >= 2}

Latest(positions) == CHOOSE i \in positions : \A j \in positions : j <= i

\* C5 as stated: for a name that several candidates share, the entry is the
\* record built from the candidate that occurs latest in the list, whatever
\* the valid flags and the predicate.
C5_LatestCandidateWins ==
    IsGenerateCall =>
        \A nm \in DuplicatedNames :
            /\ HasKey(op.ret, nm)
            /\ ObjGet(op.ret, nm) = RecordOf(op.addonPackageList[Latest(PositionsOf(nm))])

\* C5: for a name that several candidates share, the map has an entry iff
\* one of them is valid and not excluded by the predicate, and the entry is
\* then the record built from the latest such candidate in the list; a later
\* duplicate that is invalid or excluded leaves the earlier entry in place.
C5_LatestEligibleCandidateWins ==
    IsGenerateCall =>
        \A nm \in DuplicatedNames :
            LET eligible == {i \in PositionsOf(nm) :
                                Eligible(op.addonPackageList[i], op.excludeFn)}
            IN  IF eligible = {} THEN ~HasKey(op.ret, nm)
                ELSE /\ HasKey(op.ret, nm)
                     /\ ObjGet(op.ret, nm) = RecordOf(op.addonPackageList[Latest(eligible)])

\* two candidates of one name, the earlier valid and the later invalid: the
\* entry is the earlier one's record
C5_Witness ==
    /\ IsGenerateCall
    /\ \E i, j \in 1..Len(op.addonPackageList) :
           /\ i < j
           /\ op.addonPackageList[i] # op.addonPackageList[j]
           /\ name(op.addonPackageList[i]) = name(op.addonPackageList[j])
           /\ valid[op.addonPackageList[i]]
           /\ ~valid[op.addonPackageList[j]]
           /\ HasKey(op.ret, name(op.addonPackageList[i]))
           /\ ObjGet(op.ret, name(op.addonPackageList[i])) = RecordOf(op.addonPackageList[i])

IsDumpCall == op.name \in {"dumpInvalidAddonPackages", "buildAddonMap"}

HasWarningChannel(u) == Truthy(u) /\ u.writeWarnLine

\* the warning block for an owner and a candidate list
WarningBlock(self, l) ==
    LET invalidOnes == SelectSeq(l, LAMBDA n : ~valid[n])
    IN  << <<"For ", IF PkgTable[self].project THEN "project" ELSE "addon",
             " at path ", realPath(self), ":">> >>
        \o [i \in 1..Len(invalidOnes) |->
               <<"   Excluding invalid/malformed/missing addon at relative path '",
                 Relative(realPath(self), realPath(invalidOnes[i])), "'">>]

\* C7: building the addon map twice in a row for the same owner and the
\* same candidate list gives the same map and the second build writes
\* nothing; a call that writes at all writes the warning block (header
\* naming the owner as project or addon with its realPath, then one line
\* per invalid candidate with its path relative to the owner) and is the
\* first call on its owner; every call after the first writes nothing.
C7_WarnOnceSameMap ==
    /\ [](IsDumpCall =>
            /\ op.written # <<>> =>
                   /\ ~op.flagBefore
                   /\ op.written = WarningBlock(op.self, op.addonPackageList)
            /\ op.flagBefore => op.written = <<>>)
    /\ [][(/\ op.name = "buildAddonMap"
           /\ op'.name = "buildAddonMap"
           /\ op'.self = op.self
           /\ op'.addonPackageList = op.addonPackageList
           /\ op'.excludeFn = op.excludeFn)
          => (op'.ret = op.ret /\ op'.written = <<>>)]_vars
    /\ [][\A n \in Nodes :
             hasDumpedInvalidAddonPackages[n] => hasDumpedInvalidAddonPackages'[n]]_vars

\* a build after the first call on its owner: an invalid candidate in the
\* list, a warning channel present, a map returned, nothing written
C7_Witness ==
    /\ op.name = "buildAddonMap"
    /\ op.flagBefore
    /\ HasWarningChannel(op.uiBefore)
    /\ \E i \in 1..Len(op.addonPackageList) : ~valid[op.addonPackageList[i]]
    /\ op.written = <<>>
    /\ Len(op.ret.entries) > 0

\* C10: the first call on an owner consumes the flag whether or not it
\* wrote anything (no invalid candidate in its list, or no ui, or a ui
\* without writeWarnLine); every later call on that owner writes nothing,
\* even with invalid candidates in its list and a warning channel present.
C10_FlagConsumedByFirstCall ==
    /\ [](IsDumpCall => hasDumpedInvalidAddonPackages[op.self])
    /\ [][\A n \in Nodes :
             (hasDumpedInvalidAddonPackages[n] /\ op'.self = n
                 /\ op'.name \in {"dumpInvalidAddonPackages", "buildAddonMap"})
             => (op'.written = <<>> /\ hasDumpedInvalidAddonPackages'[n])]_vars

\* a first call that wrote nothing although its list holds an invalid
\* candidate, the cache having no warning channel; the flag is set
C10_Witness ==
    /\ IsDumpCall
    /\ ~op.flagBefore
    /\ ~HasWarningChannel(op.uiBefore)
    /\ \E i \in 1..Len(op.addonPackageList) : ~valid[op.addonPackageList[i]]
    /\ op.written = <<>>
    /\ hasDumpedInvalidAddonPackages[op.self]

(***************************************************************************)
(* Properties of getAddonConstructor                                      *)
(***************************************************************************)
Loads(n) == Len(SelectSeq(requireLog[n], LAMBDA o : o = "loaded"))

\* C8: getAddonConstructor is memoized per node. Once a load has succeeded
\* the main module is never required again and addonConstructor is never
\* assigned again, so a node whose first load succeeds has one require and
\* one assignment in all; a call on a node with a constructor returns that
\* constructor; a call whose load throws leaves addonConstructor unset, and
\* a call on a node without a constructor requires the main module.
C8_ConstructorMemoized ==
    /\ [](\A n \in Nodes :
            /\ assignCount[n] <= 1
            /\ Loads(n) = assignCount[n]
            /\ Truthy(addonConstructor[n]) <=> assignCount[n] = 1
            /\ (requireLog[n] # <<>> /\ requireLog[n][1] = "loaded") =>
                   (requireLog[n] = <<"loaded">> /\ assignCount[n] = 1)
            /\ \A i \in 1..Len(requireLog[n]) :
                   requireLog[n][i] = "loaded" => i = Len(requireLog[n]))
    /\ [][op'.name = "getAddonConstructor" =>
             LET n == op'.self
             IN  /\ Truthy(addonConstructor[n]) =>
                        /\ ~op'.threw
                        /\ op'.ret = addonConstructor[n]
                        /\ addonConstructor'[n] = addonConstructor[n]
                        /\ requireLog'[n] = requireLog[n]
                 /\ ~Truthy(addonConstructor[n]) =>
                        Len(requireLog'[n]) = Len(requireLog[n]) + 1
                 /\ op'.threw => ~Truthy(addonConstructor'[n])
                 /\ ~op'.threw => op'.ret = addonConstructor'[n]]_vars

\* a call on a node whose load had thrown once and then succeeded: the
\* constructor stored by the earlier call is returned, nothing is required
C8_Witness ==
    /\ op.name = "getAddonConstructor"
    /\ Truthy(op.ctorBefore)
    /\ op.ret = op.ctorBefore
    /\ op.required = <<>>
    /\ requireLog[op.self] = <<"threw", "loaded">>
    /\ assignCount[op.self] = 1

(***************************************************************************)
(* What the methods leave alone                                           *)
(***************************************************************************)
\* C9: no call changes any node's valid flag, and an error list changes
\* only by addDependencies appending to the list of the node it was called
\* on; a node with unresolved dependencies stays valid, and an invalid node
\* is still returned as a resolved dependency and still listed by the
\* discovery methods.
C9_ValidAndErrorsFrame ==
    /\ [][/\ valid' = valid
          /\ \A n \in Nodes :
                 errors'[n] # errors[n] =>
                     /\ op'.name = "addDependencies"
                     /\ op'.self = n
                     /\ Len(errors'[n]) = Len(errors[n]) + 1
                     /\ SubSeq(errors'[n], 1, Len(errors[n])) = errors[n]]_vars
    /\ [](IsDependencyCall =>
             \A k \in Declared :
                 Lookup(op.self, k) # NoPkg =>
                     (HasKey(op.ret, k) /\ ObjGet(op.ret, k) = Lookup(op.self, k)))
    /\ [](op.name = "discoverAddonAddons" =>
             \A i \in 1..Len(ValuesOf(dependencyPackages[op.self])) :
                 LET d == ValuesOf(dependencyPackages[op.self])[i]
                 IN  (AddonShaped(d) /\ name(d) # "ember-cli") => Contains(op.ret.items, d))

\* a valid node that has a dependenciesMissing error and an invalid package
\* among its resolved dependencies, that package listed by its discovery
C9_Witness ==
    /\ op.name = "discoverAddonAddons"
    /\ valid[op.self]
    /\ errors[op.self] # <<>>
    /\ \E i \in 1..Len(op.ret.items) :
           /\ ~valid[op.ret.items[i]]
           /\ errors[op.ret.items[i]] = <<>>
           /\ Contains(ValuesOf(dependencyPackages[op.self]), op.ret.items[i])


=============================================================================
